---- MODULE Spec2Model ----
(***************************************************************************)
(* A model of algorithm.py: DataValidator.validate_entry,                  *)
(* ScoringConfig.max_possible_score, StandardEngagementScorer              *)
(* .calculate_score and EngagementAnalyzer.process_user_data.              *)
(*                                                                         *)
(* Python values are tagged records (PyInt, PyBool, ...); a dictionary key *)
(* that is not present is the value PyAbsent.  Numbers are exact: the      *)
(* float time_weight is carried doubled (1.5 is 3), so every raw score is  *)
(* an integer number of halves, and a score is the fraction num/den.       *)
(* Rounding to two decimals yields an integer number of hundredths.        *)
(***************************************************************************)
EXTENDS Integers, Sequences, FiniteSets

VARIABLES data0, data, config, pc, u, e, processed_entries, user_top_scores,
          skipped, error

vars == <<data0, data, config, pc, u, e, processed_entries, user_top_scores,
          skipped, error>>

----------------------------------------------------------------------------
(* Bounds and program constants *)

MaxEntries == 3

DEFAULT_MAX_TIME == 120
DEFAULT_LIKE_SCORE == 30
DEFAULT_SHARE_SCORE == 10
DEFAULT_COMMENT_SCORE == 20
DEFAULT_TIME_WEIGHT2 == 3
SHARE_CEILING == 20
TOP_N == 2

----------------------------------------------------------------------------
(* Python values *)

PyAbsent == [t |-> "absent", n |-> 0, s |-> "", l |-> <<>>]
PyNone == [t |-> "none", n |-> 0, s |-> "", l |-> <<>>]
PyBool(b) == [t |-> "bool", n |-> IF b THEN 1 ELSE 0, s |-> "", l |-> <<>>]
PyInt(n) == [t |-> "int", n |-> n, s |-> "", l |-> <<>>]
PyFloat(n) == [t |-> "float", n |-> n, s |-> "", l |-> <<>>]
PyStr(s) == [t |-> "str", n |-> 0, s |-> s, l |-> <<>>]
PyList(l) == [t |-> "list", n |-> 0, s |-> "", l |-> l]

\* isinstance(v, types): bool is a subclass of int
IsInstance(v, types) == v.t \in types \/ (v.t = "bool" /\ "int" \in types)

\* truth value of v in a conditional expression
Truthy(v) ==
    CASE v.t = "bool" -> v.n = 1
      [] v.t \in {"int", "float"} -> v.n # 0
      [] v.t = "str" -> v.s # ""
      [] v.t = "list" -> v.l # <<>>
      [] OTHER -> FALSE

\* str.lower() on the strings of the model
Lower(s) ==
    CASE s \in {"TRUE", "True"} -> "true"
      [] s \in {"FALSE", "False"} -> "false"
      [] s = "YES" -> "yes"
      [] OTHER -> s

----------------------------------------------------------------------------
(* ScoringConfig *)

DefaultConfig ==
    [max_time |-> DEFAULT_MAX_TIME, like_score |-> DEFAULT_LIKE_SCORE,
     share_score |-> DEFAULT_SHARE_SCORE, comment_score |-> DEFAULT_COMMENT_SCORE,
     time_weight2 |-> DEFAULT_TIME_WEIGHT2]

\* max_possible_score with a ceiling of 10 shares instead of 20
max_possible_score2_TenShares(c) ==
    (c.max_time * c.time_weight2) + 2 * c.like_score
        + 2 * (10 * c.share_score) + 2 * c.comment_score

\* twice max_possible_score
max_possible_score2(c) ==
    (c.max_time * c.time_weight2) + 2 * c.like_score
        + 2 * (SHARE_CEILING * c.share_score) + 2 * c.comment_score

----------------------------------------------------------------------------
(* DataValidator.validate_entry: the entry as the call leaves it, and the *)
(* ValidationError it raises, if any *)

required_fields == {"time_spent", "liked", "shares", "commented", "hashtags"}

Raise(entry, msg) == [raised |-> TRUE, msg |-> msg, entry |-> entry]
Return(entry) == [raised |-> FALSE, msg |-> "", entry |-> entry]

CoerceBool(v) == IF v.t = "str" THEN PyBool(Lower(v.s) = "true") ELSE v

\* validate_entry coercing liked and commented before its checks
validate_entry_CoerceFirst(entry) ==
    LET e0 == [entry EXCEPT !.liked = CoerceBool(entry.liked),
                            !.commented = CoerceBool(entry.commented)]
    IN IF ~(\A field \in required_fields : e0[field].t # "absent")
       THEN Raise(e0, "Missing required fields in entry")
       ELSE IF ~IsInstance(e0.time_spent, {"int", "float"})
       THEN Raise(e0, "time_spent must be numeric")
       ELSE IF ~IsInstance(e0.shares, {"int"})
       THEN Raise(e0, "shares must be an integer")
       ELSE IF e0.hashtags.t # "str" /\ e0.hashtags.t # "list"
       THEN Raise(e0, "hashtags must be a string or a list")
       ELSE IF e0.hashtags.t = "str"
       THEN Return([e0 EXCEPT !.hashtags = PyList(<<e0.hashtags.s>>)])
       ELSE Return(e0)

validate_entry(entry) ==
    IF ~(\A field \in required_fields : entry[field].t # "absent")
    THEN Raise(entry, "Missing required fields in entry")
    ELSE IF ~IsInstance(entry.time_spent, {"int", "float"})
    THEN Raise(entry, "time_spent must be numeric")
    ELSE IF ~IsInstance(entry.shares, {"int"})
    THEN Raise(entry, "shares must be an integer")
    ELSE IF entry.hashtags.t # "str" /\ entry.hashtags.t # "list"
    THEN Raise(entry, "hashtags must be a string or a list")
    ELSE LET e1 == IF entry.hashtags.t = "str"
                   THEN [entry EXCEPT !.hashtags = PyList(<<entry.hashtags.s>>)]
                   ELSE entry
             e2 == [e1 EXCEPT !.liked = CoerceBool(e1.liked)]
             e3 == [e2 EXCEPT !.commented = CoerceBool(e2.commented)]
         IN Return(e3)

----------------------------------------------------------------------------
(* StandardEngagementScorer.calculate_score *)

\* twice raw_score
raw_score2(entry, c) ==
    entry.time_spent.n * c.time_weight2
        + 2 * (IF Truthy(entry.liked) THEN c.like_score ELSE 0)
        + 2 * (entry.shares.n * c.share_score)
        + 2 * (IF Truthy(entry.commented) THEN c.comment_score ELSE 0)

NoScore == [num |-> 0, den |-> 1]

calculate_score(entry, c) ==
    LET v == validate_entry(entry) IN
    IF v.raised
    THEN [outcome |-> "ValidationError", msg |-> v.msg, entry |-> v.entry,
          score |-> NoScore]
    ELSE IF max_possible_score2(c) = 0
    THEN [outcome |-> "ZeroDivisionError", msg |-> "division by zero",
          entry |-> v.entry, score |-> NoScore]
    ELSE [outcome |-> "ok", msg |-> "", entry |-> v.entry,
          score |-> [num |-> raw_score2(v.entry, c) * 100,
                     den |-> max_possible_score2(c)]]

----------------------------------------------------------------------------
(* Scores as fractions *)

\* a / b < c / d for fractions with non-zero denominators
ScoreLess(a, b) ==
    IF (a.den > 0) = (b.den > 0)
    THEN a.num * b.den < b.num * a.den
    ELSE a.num * b.den > b.num * a.den

ScoreEq(a, b) == a.num * b.den = b.num * a.den

\* truncation to two decimals instead of rounding
Round2_Truncate(score) ==
    ((IF score.den > 0 THEN score.num ELSE -score.num) * 100)
        \div (IF score.den > 0 THEN score.den ELSE -score.den)

\* round(score, 2), in hundredths: round half to even
Round2(score) ==
    LET N == (IF score.den > 0 THEN score.num ELSE -score.num) * 100
        D == IF score.den > 0 THEN score.den ELSE -score.den
        q == N \div D
        r == N % D
    IN IF 2 * r < D THEN q
       ELSE IF 2 * r > D THEN q + 1
       ELSE IF q % 2 = 0 THEN q ELSE q + 1

----------------------------------------------------------------------------
(* sorted(processed_entries, key=engagement_score, reverse=True): stable *)

\* insertion that puts an entry before the entries of equal score
RECURSIVE InsertDesc_BeforeEqual(_, _)
InsertDesc_BeforeEqual(x, s) ==
    IF s = <<>> THEN <<x>>
    ELSE IF ~ScoreLess(x.engagement_score, Head(s).engagement_score)
    THEN <<x>> \o s
    ELSE <<Head(s)>> \o InsertDesc_BeforeEqual(x, Tail(s))

RECURSIVE InsertDesc(_, _)
InsertDesc(x, s) ==
    IF s = <<>> THEN <<x>>
    ELSE IF ScoreLess(Head(s).engagement_score, x.engagement_score)
    THEN <<x>> \o s
    ELSE <<Head(s)>> \o InsertDesc(x, Tail(s))

\* no sort at all
SortedDesc_Unsorted(s) == s

RECURSIVE SortedDesc(_)
SortedDesc(s) ==
    IF s = <<>> THEN <<>>
    ELSE InsertDesc(s[Len(s)], SortedDesc(SubSeq(s, 1, Len(s) - 1)))

\* sorted_entries[:2]
TopTwo(s) == SubSeq(s, 1, IF Len(s) < TOP_N THEN Len(s) ELSE TOP_N)

UserResult(user_id, top_two_entries) ==
    [user_id |-> user_id,
     hashtags |-> [i \in 1..Len(top_two_entries) |-> top_two_entries[i].entry.hashtags],
     engagement_score |->
        [i \in 1..Len(top_two_entries) |-> Round2(top_two_entries[i].engagement_score)]]

----------------------------------------------------------------------------
(* Inputs *)

Entry(ts, lk, sh, cm, ht) ==
    [time_spent |-> ts, liked |-> lk, shares |-> sh, commented |-> cm,
     hashtags |-> ht]

\* the two entries of example_data
Example1 == Entry(PyInt(60), PyBool(TRUE), PyInt(5), PyBool(TRUE),
                  PyList(<<"python", "coding">>))
Example2 == Entry(PyInt(45), PyBool(FALSE), PyInt(2), PyBool(TRUE),
                  PyStr("javascript"))
example_data == <<[user_id |-> "user_123", entries |-> <<Example1, Example2>>]>>

\* scores as Example1 under the default config, with other hashtags, and
\* with the flags given as strings
TieEntry == Entry(PyInt(40), PyStr("TRUE"), PyInt(8), PyStr("true"),
                  PyStr("tie"))
\* malformed: no shares field
MissingEntry == Entry(PyInt(60), PyStr("true"), PyAbsent, PyBool(TRUE),
                      PyStr("missing"))
\* malformed: time_spent is a string
WrongTypeEntry == Entry(PyStr("60"), PyStr("true"), PyInt(5), PyStr("true"),
                        PyStr("wrongtype"))
\* malformed: hashtags is neither a string nor a list
BadHashtagsEntry == Entry(PyInt(60), PyStr("true"), PyInt(5), PyStr("true"),
                          PyInt(7))

\* valid, scores least; liked and commented are not booleans or strings
LowEntry == Entry(PyFloat(10), PyInt(0), PyInt(0), PyNone, PyList(<<>>))

Pool == {Example1, Example2, TieEntry, LowEntry, MissingEntry, WrongTypeEntry,
         BadHashtagsEntry}

UserIds == {"user_123", "user_456"}

ZeroConfig ==
    [max_time |-> 0, like_score |-> 0, share_score |-> 0, comment_score |-> 0,
     time_weight2 |-> DEFAULT_TIME_WEIGHT2]

\* a tuned configuration: small ceiling for time, shares weigh nothing
TunedConfig ==
    [max_time |-> 10, like_score |-> 5, share_score |-> 0, comment_score |-> 5,
     time_weight2 |-> 2]

\* a negative like bonus; max_possible_score is still positive
NegativeConfig ==
    [max_time |-> 120, like_score |-> -30, share_score |-> 10, comment_score |-> 20,
     time_weight2 |-> 3]

EntryLists(n) == UNION {[1..k -> Pool] : k \in 0..n}

\* the mappings of at most two users holding at most MaxEntries entries,
\* as the sequence of their items in insertion order
Mappings ==
    {<<>>}
    \cup {<<[user_id |-> a, entries |-> l]>> :
            a \in UserIds, l \in EntryLists(MaxEntries)}
    \cup UNION {
           {<<[user_id |-> ab[1], entries |-> l1], [user_id |-> ab[2], entries |-> l2]>> :
               l2 \in EntryLists(MaxEntries - Len(l1))} :
           ab \in {x \in UserIds \X UserIds : x[1] # x[2]},
           l1 \in EntryLists(MaxEntries)}

\* the field values of single entries
TimeSpentValues ==
    {PyInt(0), PyInt(60), PyInt(120), PyInt(150), PyInt(-5), PyFloat(45),
     PyBool(TRUE), PyStr("60"), PyNone, PyAbsent}
LikedValues ==
    {PyBool(TRUE), PyBool(FALSE), PyStr("true"), PyStr("TRUE"), PyStr("yes"),
     PyInt(1), PyNone, PyAbsent}
SharesValues ==
    {PyInt(0), PyInt(5), PyInt(20), PyInt(25), PyFloat(2), PyBool(TRUE),
     PyStr("5"), PyAbsent}
CommentedValues ==
    {PyBool(TRUE), PyBool(FALSE), PyStr("False"), PyStr("true"), PyAbsent}
HashtagsValues ==
    {PyList(<<"python", "coding">>), PyList(<<>>), PyStr("javascript"),
     PyInt(7), PyNone, PyAbsent}

EntrySpace ==
    {Entry(ts, lk, sh, cm, ht) :
        ts \in TimeSpentValues, lk \in LikedValues, sh \in SharesValues,
        cm \in CommentedValues, ht \in HashtagsValues}

----------------------------------------------------------------------------
(* EngagementAnalyzer.process_user_data *)

Start(d, c) ==
    /\ data0 = d
    /\ data = d
    /\ config = c
    /\ pc = "loop"
    /\ u = 1
    /\ e = 1
    /\ processed_entries = <<>>
    /\ user_top_scores = <<>>
    /\ skipped = <<>>
    /\ error = "none"

Init == \E d \in Mappings, c \in {DefaultConfig, ZeroConfig} : Start(d, c)

InitScore ==
    \E x \in EntrySpace, c \in {DefaultConfig, ZeroConfig, TunedConfig, NegativeConfig} :
        Start(<<[user_id |-> "user_123", entries |-> <<x>>]>>, c)

InEntry == pc = "loop" /\ u <= Len(data) /\ e <= Len(data[u].entries)

Outcome == calculate_score(data[u].entries[e], config)

\* the entry validates and is scored
ScoreEntry ==
    /\ InEntry
    /\ Outcome.outcome = "ok"
    /\ data' = [data EXCEPT ![u].entries[e] = Outcome.entry]
    /\ processed_entries' =
          Append(processed_entries,
                 [entry |-> Outcome.entry, engagement_score |-> Outcome.score])
    /\ e' = e + 1
    /\ UNCHANGED <<data0, config, pc, u, user_top_scores, skipped, error>>

\* a ValidationError that ends the user's loop instead of continuing it
SkipEntry_Break ==
    /\ InEntry
    /\ Outcome.outcome = "ValidationError"
    /\ data' = [data EXCEPT ![u].entries[e] = Outcome.entry]
    /\ skipped' = Append(skipped, [user_id |-> data[u].user_id, u |-> u, e |-> e,
                                   msg |-> Outcome.msg])
    /\ e' = Len(data[u].entries) + 1
    /\ UNCHANGED <<data0, config, pc, u, processed_entries, user_top_scores, error>>

\* except ValidationError: print and continue
SkipEntry ==
    /\ InEntry
    /\ Outcome.outcome = "ValidationError"
    /\ data' = [data EXCEPT ![u].entries[e] = Outcome.entry]
    /\ skipped' = Append(skipped, [user_id |-> data[u].user_id, u |-> u, e |-> e,
                                   msg |-> Outcome.msg])
    /\ e' = e + 1
    /\ UNCHANGED <<data0, config, pc, u, processed_entries, user_top_scores, error>>

\* any other exception leaves process_user_data
Propagate ==
    /\ InEntry
    /\ Outcome.outcome \notin {"ok", "ValidationError"}
    /\ data' = [data EXCEPT ![u].entries[e] = Outcome.entry]
    /\ pc' = "raised"
    /\ error' = Outcome.outcome
    /\ UNCHANGED <<data0, config, u, e, processed_entries, user_top_scores, skipped>>

\* a result appended for every user, also one without valid entries
FinishUser_AlwaysAppend ==
    /\ pc = "loop"
    /\ u <= Len(data)
    /\ e > Len(data[u].entries)
    /\ user_top_scores' =
          Append(user_top_scores,
                 UserResult(data[u].user_id, TopTwo(SortedDesc(processed_entries))))
    /\ u' = u + 1
    /\ e' = 1
    /\ processed_entries' = <<>>
    /\ UNCHANGED <<data0, data, config, pc, skipped, error>>

\* the end of a user's entries: sort, take two, append a result if any
FinishUser ==
    /\ pc = "loop"
    /\ u <= Len(data)
    /\ e > Len(data[u].entries)
    /\ LET top_two_entries == TopTwo(SortedDesc(processed_entries)) IN
        user_top_scores' =
            IF top_two_entries # <<>>
            THEN Append(user_top_scores, UserResult(data[u].user_id, top_two_entries))
            ELSE user_top_scores
    /\ u' = u + 1
    /\ e' = 1
    /\ processed_entries' = <<>>
    /\ UNCHANGED <<data0, data, config, pc, skipped, error>>

ReturnResults ==
    /\ pc = "loop"
    /\ u > Len(data)
    /\ pc' = "done"
    /\ UNCHANGED <<data0, data, config, u, e, processed_entries, user_top_scores,
                   skipped, error>>

Next == ScoreEntry \/ SkipEntry \/ Propagate \/ FinishUser \/ ReturnResults

Spec == Init /\ [][Next]_vars

SpecScore == InitScore /\ [][Next]_vars

----------------------------------------------------------------------------
(* What the claims speak of, over the input as it was given (data0) *)

Valid(x) == ~validate_entry(x).raised
Normalized(x) == validate_entry(x).entry
ScoreOf(x) == calculate_score(x, config).score
ValidIdx(entries) == {i \in 1..Len(entries) : Valid(entries[i])}
ItemOf(user_id) == CHOOSE i \in 1..Len(data0) : data0[i].user_id = user_id
Min(a, b) == IF a < b THEN a ELSE b
Results == {user_top_scores[i] : i \in 1..Len(user_top_scores)}
Finished == IF pc = "loop" THEN u - 1 ELSE IF pc = "done" THEN Len(data0) ELSE u - 1

\* C1: every user result is a top-2 selection of the user's valid entries:
\* both sequences have length min(2, n), position k of both comes from one
\* selected entry, the scores descend, and no valid entry left out scores
\* strictly more than a selected one.
C1_TopTwoSelection ==
    \A r \in Results :
        LET entries == data0[ItemOf(r.user_id)].entries
            V == ValidIdx(entries)
            n == Min(TOP_N, Cardinality(V))
        IN /\ n >= 1
           /\ DOMAIN r.engagement_score = 1..n
           /\ DOMAIN r.hashtags = 1..n
           /\ \E sel \in [1..n -> V] :
                /\ \A j, k \in 1..n : j # k => sel[j] # sel[k]
                /\ \A k \in 1..n :
                     /\ r.hashtags[k] = Normalized(entries[sel[k]]).hashtags
                     /\ r.engagement_score[k] = Round2(ScoreOf(entries[sel[k]]))
                /\ \A k \in 1..(n - 1) :
                     /\ ~ScoreLess(ScoreOf(entries[sel[k]]), ScoreOf(entries[sel[k + 1]]))
                     /\ r.engagement_score[k] >= r.engagement_score[k + 1]
                /\ \A j \in V \ {sel[k] : k \in 1..n} : \A k \in 1..n :
                     ~ScoreLess(ScoreOf(entries[sel[k]]), ScoreOf(entries[j]))

\* a user with three valid entries of which the least-scoring comes first
\* has its result
C1_Witness ==
    \E r \in Results :
        LET entries == data0[ItemOf(r.user_id)].entries IN
        /\ Cardinality(ValidIdx(entries)) = 3
        /\ ScoreLess(ScoreOf(entries[1]), ScoreOf(entries[3]))
        /\ Len(r.engagement_score) = 2

\* the user ids of the users among the first n that have a valid entry
RECURSIVE ExpectedUsers(_)
ExpectedUsers(n) ==
    IF n = 0 THEN <<>>
    ELSE IF ValidIdx(data0[n].entries) # {}
    THEN Append(ExpectedUsers(n - 1), data0[n].user_id)
    ELSE ExpectedUsers(n - 1)

\* C2: the user ids of the results are the input's keys, in insertion
\* order, restricted to the users with at least one valid entry (each
\* once); here for the users finished so far, hence for the returned list.
C2_UserOrder ==
    pc \in {"loop", "done"} =>
        [i \in 1..Len(user_top_scores) |-> user_top_scores[i].user_id]
            = ExpectedUsers(Finished)

\* returned: a user without valid entries before a user with one
C2_Witness ==
    /\ pc = "done"
    /\ Len(data0) = 2
    /\ data0[1].entries # <<>>
    /\ ValidIdx(data0[1].entries) = {}
    /\ Len(user_top_scores) = 1
    /\ user_top_scores[1].user_id = data0[2].user_id

\* the positions of the input the loops have passed
Passed == {p \in (1..Len(data0)) \X (1..MaxEntries + 1) :
             /\ p[2] <= Len(data0[p[1]].entries)
             /\ \/ pc = "done"
                \/ p[1] < u
                \/ p[1] = u /\ p[2] < e}

\* the valid entries among the first n of a list, normalized and scored
RECURSIVE ExpectedProcessed(_, _)
ExpectedProcessed(entries, n) ==
    IF n = 0 THEN <<>>
    ELSE IF Valid(entries[n])
    THEN Append(ExpectedProcessed(entries, n - 1),
                [entry |-> Normalized(entries[n]),
                 engagement_score |-> ScoreOf(entries[n])])
    ELSE ExpectedProcessed(entries, n - 1)

\* C3: a malformed entry never makes process_user_data fail: an exception
\* leaves it only at an entry that passes validation (and only when the
\* denominator is zero); exactly the malformed entries passed so far have
\* been skipped; the entries scored for the current user are all its valid
\* entries passed so far, in order; and until it has returned the run can
\* always take its next step: at an entry one of the three outcomes is
\* enabled, past a user's last entry the user is finished, past the last
\* user the results are returned.
C3_MalformedEntrySkipped ==
    /\ pc = "raised" =>
          /\ u <= Len(data0) /\ e <= Len(data0[u].entries)
          /\ Valid(data0[u].entries[e])
          /\ max_possible_score2(config) = 0
    /\ {<<skipped[i].u, skipped[i].e>> : i \in 1..Len(skipped)}
          = {p \in Passed : ~Valid(data0[p[1]].entries[p[2]])}
    /\ (pc = "loop" /\ u <= Len(data0)) =>
          processed_entries = ExpectedProcessed(data0[u].entries, e - 1)
    /\ InEntry => ENABLED ScoreEntry \/ ENABLED SkipEntry \/ ENABLED Propagate
    /\ (pc = "loop" /\ ~InEntry /\ u <= Len(data)) => e > Len(data[u].entries)
    /\ (pc = "loop" /\ u > Len(data)) => ENABLED ReturnResults

\* a malformed entry between two valid ones was skipped and the user's
\* result holds both valid ones
C3_Witness ==
    /\ pc = "done"
    /\ Len(data0) = 1
    /\ Len(data0[1].entries) = 3
    /\ ValidIdx(data0[1].entries) = {1, 3}
    /\ Len(skipped) = 1
    /\ Len(user_top_scores) = 1
    /\ Len(user_top_scores[1].engagement_score) = 2

\* entry i is ranked before entry j
RankedBefore(entries, i, j) ==
    \/ ScoreLess(ScoreOf(entries[j]), ScoreOf(entries[i]))
    \/ ScoreEq(ScoreOf(entries[i]), ScoreOf(entries[j])) /\ i < j

\* the valid entry with k - 1 valid entries ranked before it
Ranked(entries, k) ==
    CHOOSE i \in ValidIdx(entries) :
        Cardinality({j \in ValidIdx(entries) : RankedBefore(entries, j, i)}) = k - 1

\* C4: ranking is stable: position k of a result is the valid entry that
\* has k - 1 valid entries ranked before it, where of two entries with
\* equal unrounded scores the earlier in the input is ranked first.
C4_StableRanking ==
    \A r \in Results :
        LET entries == data0[ItemOf(r.user_id)].entries IN
        \A k \in DOMAIN r.hashtags :
            /\ r.hashtags[k] = Normalized(entries[Ranked(entries, k)]).hashtags
            /\ r.engagement_score[k] = Round2(ScoreOf(entries[Ranked(entries, k)]))

\* three valid entries with equal scores and different hashtags, or two
\* such entries after a lesser one
C4_Witness ==
    \E r \in Results :
        LET entries == data0[ItemOf(r.user_id)].entries IN
        /\ ValidIdx(entries) = {1, 2, 3}
        /\ ScoreEq(ScoreOf(entries[2]), ScoreOf(entries[3]))
        /\ ScoreLess(ScoreOf(entries[1]), ScoreOf(entries[2]))
        /\ Normalized(entries[2]).hashtags # Normalized(entries[3]).hashtags
        /\ r.hashtags[1] = Normalized(entries[2]).hashtags
        /\ r.hashtags[2] = Normalized(entries[3]).hashtags

\* the positions of the input
Positions == {p \in (1..Len(data0)) \X (1..MaxEntries + 1) :
                p[2] <= Len(data0[p[1]].entries)}

\* C5: booleans are rejected in the numeric fields: no entry whose
\* time_spent or shares is a boolean passes validation, so none is scored.
C5_BooleansRejected ==
    /\ \A p \in Positions :
          LET x == data0[p[1]].entries[p[2]] IN
          (p \in Passed /\ (x.time_spent.t = "bool" \/ x.shares.t = "bool")) =>
              \E i \in 1..Len(skipped) : <<skipped[i].u, skipped[i].e>> = p
    /\ \A k \in 1..Len(processed_entries) :
          /\ processed_entries[k].entry.time_spent.t # "bool"
          /\ processed_entries[k].entry.shares.t # "bool"

\* C6: after validate_entry returns, the entry has the five fields,
\* hashtags is a list and liked and commented are booleans.
C6_NormalizedTypes ==
    \A k \in 1..Len(processed_entries) :
        LET x == processed_entries[k].entry IN
        /\ \A field \in required_fields : x[field].t # "absent"
        /\ x.hashtags.t = "list"
        /\ x.liked.t = "bool"
        /\ x.commented.t = "bool"

Hundred == [num |-> 100, den |-> 1]
Zero == [num |-> 0, den |-> 1]

\* C7 as claimed: every score calculate_score returns lies in [0, 100].
C7_ScoreInRange ==
    \A k \in 1..Len(processed_entries) :
        /\ ~ScoreLess(processed_entries[k].engagement_score, Zero)
        /\ ~ScoreLess(Hundred, processed_entries[k].engagement_score)

NonNegativeWeights(c) ==
    /\ c.max_time >= 0
    /\ c.time_weight2 >= 0
    /\ c.like_score >= 0
    /\ c.share_score >= 0
    /\ c.comment_score >= 0

WithinCeilings(x, c) ==
    /\ 0 <= x.time_spent.n /\ x.time_spent.n <= c.max_time
    /\ 0 <= x.shares.n /\ x.shares.n <= SHARE_CEILING

\* C7 as amended: the score lies in [0, 100] for every valid entry with
\* 0 <= time_spent <= max_time and 0 <= shares <= 20, under a config of
\* non-negative weights and a positive max_possible_score.
C7_ScoreInRangeWithinCeilings ==
    \A k \in 1..Len(processed_entries) :
        (NonNegativeWeights(config) /\ WithinCeilings(processed_entries[k].entry, config)) =>
            /\ ~ScoreLess(processed_entries[k].engagement_score, Zero)
            /\ ~ScoreLess(Hundred, processed_entries[k].engagement_score)

\* an entry at both ceilings with both flags scores exactly 100
C7_Witness ==
    /\ config = DefaultConfig
    /\ Len(processed_entries) = 1
    /\ WithinCeilings(processed_entries[1].entry, config)
    /\ processed_entries[1].entry.shares.n = SHARE_CEILING
    /\ ScoreEq(processed_entries[1].engagement_score, Hundred)

\* the score as the claim writes it, doubled above and below
ClaimedScore(x, c) ==
    [num |-> (x.time_spent.n * c.time_weight2
                + (IF Truthy(x.liked) THEN 2 * c.like_score ELSE 0)
                + 2 * x.shares.n * c.share_score
                + (IF Truthy(x.commented) THEN 2 * c.comment_score ELSE 0)) * 100,
     den |-> c.max_time * c.time_weight2 + 2 * c.like_score + 40 * c.share_score
                + 2 * c.comment_score]

\* C8: the score is the weighted sum over max_possible_score times 100 (430
\* for the default config), unrounded in the scorer and rounded to two
\* decimals in the output only; the two entries of example_data yield
\* engagement_score [44.19, 25.0] and hashtags [["python", "coding"],
\* ["javascript"]].
C8_ScoreFormulaAndExample ==
    /\ config = DefaultConfig => max_possible_score2(config) = 2 * 430
    /\ \A k \in 1..Len(processed_entries) :
          /\ processed_entries[k].engagement_score.den = max_possible_score2(config)
          /\ ScoreEq(processed_entries[k].engagement_score,
                     ClaimedScore(processed_entries[k].entry, config))
    /\ (data0 = example_data /\ config = DefaultConfig /\ Len(processed_entries) = 2) =>
          /\ processed_entries[1].engagement_score = [num |-> 38000, den |-> 860]
          /\ processed_entries[2].engagement_score = [num |-> 21500, den |-> 860]
    /\ (data0 = example_data /\ config = DefaultConfig /\ pc = "done") =>
          user_top_scores =
              <<[user_id |-> "user_123",
                 hashtags |-> <<PyList(<<"python", "coding">>), PyList(<<"javascript">>)>>,
                 engagement_score |-> <<4419, 2500>>]>>

C8_Witness ==
    /\ data0 = example_data
    /\ config = DefaultConfig
    /\ pc = "done"
    /\ Len(user_top_scores) = 1

\* C9: calculate_score either fails with ValidationError or returns a
\* score: no other error leaves it.
C9_TwoOutcomes == pc # "raised" /\ error = "none"

\* C10: a failed validation leaves the entry as it was: every entry of the
\* input that fails validation is unchanged in the mapping, and an entry
\* that was changed in place is a valid one that was passed to the scorer
\* and holds its normalized form.
C10_FailedValidationLeavesEntry ==
    \A p \in Positions :
        LET x0 == data0[p[1]].entries[p[2]]
            x == data[p[1]].entries[p[2]]
        IN /\ validate_entry(x0).raised => validate_entry(x0).entry = x0
           /\ ~Valid(x0) => x = x0
           /\ x # x0 =>
                /\ Valid(x0)
                /\ x = Normalized(x0)
                /\ p \in Passed \/ (pc = "raised" /\ p = <<u, e>>)
           /\ (pc = "done" /\ Valid(x0)) => x = Normalized(x0)

\* returned: a skipped entry whose liked is still the string it was, and a
\* scored entry normalized in place
C10_Witness ==
    /\ pc = "done"
    /\ \E p \in Positions :
          /\ ~Valid(data0[p[1]].entries[p[2]])
          /\ data0[p[1]].entries[p[2]].liked.t = "str"
          /\ data[p[1]].entries[p[2]].liked.t = "str"
          /\ \E i \in 1..Len(skipped) : <<skipped[i].u, skipped[i].e>> = p
    /\ \E p \in Positions :
          /\ Valid(data0[p[1]].entries[p[2]])
          /\ data[p[1]].entries[p[2]] # data0[p[1]].entries[p[2]]

====
